---------------------------- MODULE Spec2Model ----------------------------
(***************************************************************************)
(* jotai-eager: the settlement cache, soon, soonAll and the eager          *)
(* suspension engine (resolveSuspension / unwrapPromise / eagerAtom).      *)
(*                                                                         *)
(* JavaScript values are modelled as strings.  A piece of data handed to   *)
(* the library is either a plain value or a promise, identified by its     *)
(* index.  The host's promises are the variable `promises`; the library's  *)
(* WeakMap of promise metadata is the variable `cache`.  Every callback    *)
(* the library registers with .then() is one action of the model: it runs  *)
(* at some moment after the promise it was attached to has settled.        *)
(***************************************************************************)
EXTENDS Integers, Sequences, FiniteSets, TLC

(* ------------------------------ bounds -------------------------------- *)
\* number of distinct promises the program shares
NumPromises == 2
\* longest array handed to soonAll / longest dependency list of a read function
MaxLen == 2
\* number of soon() calls
NumSoon == 2
\* number of soonAll() calls
NumAll == 2
\* number of evaluations (runs) of the eager atom
NumRuns == 2
\* number of calls of the library, of whatever kind, when they are interleaved
MaxCalls == 3
\* number of evaluations of the atom made by derive
NumDerive == 2

(* ------------------------------ values -------------------------------- *)
NONE == "-"
UNDEFINED == "undefined"
TYPE_ERROR == "TypeError"

Promises == 1..NumPromises
\* the value promise p fulfils with, if it fulfils: "1", "2", ...
PayloadOf(p) == ToString(p)
\* the reason promise p rejects with, if it rejects: "Err1", "Err2", ...
ReasonOf(p) == "Err" \o ToString(p)
\* plain (non-promise) values handed to the library
PlainValues == {"7"}

Plain(v) == [kind |-> "value", id |-> 0, v |-> v]
PromiseOf(p) == [kind |-> "promise", id |-> p, v |-> NONE]
Data == {Plain(v) : v \in PlainValues} \cup {PromiseOf(p) : p \in Promises}

\* PromiseMeta: { status: 'pending' } | { status: 'fulfilled', value }
\*            | { status: 'rejected', reason }
PendingMeta == [status |-> "pending", value |-> NONE, reason |-> NONE]
FulfilledMeta(v) == [status |-> "fulfilled", value |-> v, reason |-> NONE]
RejectedMeta(r) == [status |-> "rejected", value |-> NONE, reason |-> r]
\* getPromiseMeta's `undefined`: the argument is not a promise
NoMeta == [status |-> "absent", value |-> NONE, reason |-> NONE]

\* the two ways promise p can settle
Outcomes(p) == {FulfilledMeta(PayloadOf(p)), RejectedMeta(ReasonOf(p))}

\* promises: the state of each promise, as the host knows it
\* cache: the library's WeakMap from promise to PromiseMeta
\* soonCalls, allCalls: the calls of soon and of soonAll, and what they came to
\* array: the array the program hands to soonAll, every time it calls it
\* read: the read function of the eager atom
\* runs: the evaluations of the eager atom; aborted: their AbortSignals
\* derived: the evaluations of the atom derive(deps, op), deps having the
\* values array
VARIABLES promises, cache, soonCalls, array, allCalls, read, runs, aborted, derived

vars == <<promises, cache, soonCalls, array, allCalls, read, runs, aborted, derived>>

(* ------------------------- settlement cache --------------------------- *)
isPromiseLike(x) == x.kind = "promise"

\* the record of a promise (a promise never inspected before reads as pending),
\* nothing for a value that is not a promise
getPromiseMeta(cch, x) == IF isPromiseLike(x) THEN cch[x.id] ELSE NoMeta

setPromiseMeta(cch, p, meta) == [cch EXCEPT ![p] = meta]

isKnown(cch, x) == LET meta == getPromiseMeta(cch, x)
                   IN  meta = NoMeta \/ meta.status = "fulfilled"

getFulfilledValue(cch, x) == LET meta == getPromiseMeta(cch, x)
                             IN  IF meta.status = "fulfilled" THEN meta.value ELSE x.v

(* -------------------------------- soon -------------------------------- *)
\* the continuations handed to soon: "f" returns a value computed from its
\* argument, "throws" throws
Processes == {"f", "throws"}
THROWN == "Boom"

\* process(x): what it returns, or what it throws
Call(process, x) ==
    IF process = "throws"
    THEN [threw |-> TRUE, v |-> THROWN]
    ELSE [threw |-> FALSE, v |-> "f(" \o x \o ")"]

\* What a soon() call has come to.  state: "idle" (not called yet),
\* "returned" (a synchronous return of value), "threw" (a synchronous throw of
\* reason), "pending" / "fulfilled" / "rejected" (a promise was returned, and
\* its state).  meta is what getPromiseMeta(data) gave the call.  calls counts
\* the invocations of process, arg is the argument of the last one and seen
\* the cache record of data at that moment.
IdleSoon ==
    [state |-> "idle", data |-> Plain(NONE), process |-> NONE, meta |-> NoMeta,
     value |-> NONE, reason |-> NONE, calls |-> 0, arg |-> NONE, seen |-> NoMeta]

\* process(arg) is invoked, the cache record of data being seen: the call
\* returns or fulfils (state) with the result, or throws or rejects
\* (failure) with what process threw
Processed(call, arg, seen, state, failure) ==
    LET r == Call(call.process, arg)
    IN  IF r.threw
        THEN [call EXCEPT !.state = failure, !.reason = r.v,
                          !.calls = call.calls + 1, !.arg = arg, !.seen = seen]
        ELSE [call EXCEPT !.state = state, !.value = r.v,
                          !.calls = call.calls + 1, !.arg = arg, !.seen = seen]

\* _soonImpl with the known rejection thrown instead of returned as a rejected
\* promise
soonImplThrowsKnownRejection(cch, data, process) ==
    LET meta == getPromiseMeta(cch, data)
        call == [IdleSoon EXCEPT !.data = data, !.process = process, !.meta = meta]
    IN  IF meta # NoMeta
        THEN IF meta.status = "fulfilled"
             THEN Processed(call, meta.value, meta, "returned", "threw")
             ELSE IF meta.status = "rejected"
                  THEN [call EXCEPT !.state = "threw", !.reason = meta.reason]
                  ELSE [call EXCEPT !.state = "pending"]
        ELSE Processed(call, data.v, meta, "returned", "rejected")

\* _soonImpl, up to its return
soonImpl(cch, data, process) ==
    LET meta == getPromiseMeta(cch, data)
        call == [IdleSoon EXCEPT !.data = data, !.process = process, !.meta = meta]
    IN  IF meta # NoMeta
        THEN IF meta.status = "fulfilled"
             THEN \* return process(meta.value): outside any try
                  Processed(call, meta.value, meta, "returned", "threw")
             ELSE IF meta.status = "rejected"
                  THEN \* return Promise.reject(meta.reason)
                       [call EXCEPT !.state = "rejected", !.reason = meta.reason]
                  ELSE \* return promise.then(onFulfilled, onRejected)
                       [call EXCEPT !.state = "pending"]
        ELSE \* try { return process(data) } catch (err) { return Promise.reject(err) }
             Processed(call, data.v, meta, "returned", "rejected")

\* the fulfilment callback of _soonImpl with its two statements swapped:
\* process runs before the cache is written
soonOnFulfilledProcessFirst(cch, call, value) ==
    LET p == call.data.id
        cch1 == setPromiseMeta(cch, p, FulfilledMeta(value))
    IN  [cache |-> cch1, call |-> Processed(call, value, cch[p], "fulfilled", "rejected")]

\* the fulfilment callback of _soonImpl: the cache it leaves and the state of
\* the promise soon returned
soonOnFulfilled(cch, call, value) ==
    LET p == call.data.id
        cch1 == setPromiseMeta(cch, p, FulfilledMeta(value))
    IN  [cache |-> cch1, call |-> Processed(call, value, cch1[p], "fulfilled", "rejected")]

\* the rejection callback of _soonImpl without its `throw reason`: the promise
\* soon returned fulfils with undefined
soonOnRejectedNotRethrown(cch, call, reason) ==
    [cache |-> setPromiseMeta(cch, call.data.id, RejectedMeta(reason)),
     call |-> [call EXCEPT !.state = "fulfilled", !.value = UNDEFINED]]

\* the rejection callback of _soonImpl
soonOnRejected(cch, call, reason) ==
    [cache |-> setPromiseMeta(cch, call.data.id, RejectedMeta(reason)),
     call |-> [call EXCEPT !.state = "rejected", !.reason = reason]]

(* ------------------------------ soonAll ------------------------------- *)
\* the arrays handed to soonAll, and the dependency lists of a read function
Arrays == UNION {[1..n -> Data] : n \in 0..MaxLen}

IdleAll == [state |-> "idle", value |-> <<>>, reason |-> NONE]

AllResult(state, value, reason) == [state |-> state, value |-> value, reason |-> reason]

\* soonAll with the elements returned as they are, not unwrapped
soonAllNotUnwrapped(cch, values) ==
    IF \A idx \in 1..Len(values) : isKnown(cch, values[idx])
    THEN AllResult("returned", [idx \in 1..Len(values) |-> values[idx].v], NONE)
    ELSE AllResult("pending", <<>>, NONE)

\* soonAll, up to its return
soonAll(cch, values) ==
    IF \A idx \in 1..Len(values) : isKnown(cch, values[idx])
    THEN \* return values.map((el) => getFulfilledValue(el))
         AllResult("returned",
                   [idx \in 1..Len(values) |-> getFulfilledValue(cch, values[idx])], NONE)
    ELSE \* return Promise.all(values).then(...)
         AllResult("pending", <<>>, NONE)

\* Promise.all(values) of the host: fulfilled with the payloads in order once
\* every promise among values is fulfilled
PromiseAllFulfilled(proms, values) ==
    \A idx \in 1..Len(values) :
        isPromiseLike(values[idx]) => proms[values[idx].id].status = "fulfilled"

PromiseAllValues(proms, values) ==
    [idx \in 1..Len(values) |->
        IF isPromiseLike(values[idx]) THEN proms[values[idx].id].value ELSE values[idx].v]

\* a Promise.all that rejects only once every element has settled
PromiseAllReasonsOnceSettled(proms, values) ==
    IF \E idx \in 1..Len(values) :
           isPromiseLike(values[idx]) /\ proms[values[idx].id].status = "pending"
    THEN {}
    ELSE {proms[values[idx].id].reason :
             idx \in {i \in 1..Len(values) :
                         isPromiseLike(values[i]) /\ proms[values[i].id].status = "rejected"}}

\* Promise.all(values) of the host: rejected with the reason of an element
\* that rejected
PromiseAllReasons(proms, values) ==
    {proms[values[idx].id].reason :
        idx \in {i \in 1..Len(values) :
                    isPromiseLike(values[i]) /\ proms[values[i].id].status = "rejected"}}

\* the body of the map with nothing recorded
allRecordOneSkipped(cch, values, fulfilledValues, idx) == cch

\* the body of the map with the first payload recorded for every promise
allRecordOneFirstPayload(cch, values, fulfilledValues, idx) ==
    IF isPromiseLike(values[idx])
    THEN setPromiseMeta(cch, values[idx].id, FulfilledMeta(fulfilledValues[1]))
    ELSE cch

\* the body of fulfilledValues.map((fulfilled, idx) => ...) for one idx
allRecordOne(cch, values, fulfilledValues, idx) ==
    IF isPromiseLike(values[idx])
    THEN setPromiseMeta(cch, values[idx].id, FulfilledMeta(fulfilledValues[idx]))
    ELSE cch

\* fulfilledValues.map((fulfilled, idx) => ...) from idx on
RECURSIVE allRecord(_, _, _, _)
allRecord(cch, values, fulfilledValues, idx) ==
    IF idx > Len(values)
    THEN cch
    ELSE allRecord(allRecordOne(cch, values, fulfilledValues, idx),
                   values, fulfilledValues, idx + 1)

\* the callback soonAll gives to Promise.all(values).then
allOnFulfilled(cch, values, fulfilledValues) ==
    [cache |-> allRecord(cch, values, fulfilledValues, 1),
     call |-> AllResult("fulfilled", fulfilledValues, NONE)]

(* ------------------------------- derive ------------------------------- *)
\* what get(dep) throws when the read function of the atom dep throws
GET_THROWN == "GetErr"

\* the arguments op is given, as one string: "1,7"
RECURSIVE Join(_)
Join(values) ==
    IF values = <<>>
    THEN ""
    ELSE IF Len(values) = 1
         THEN values[1]
         ELSE values[1] \o "," \o Join(Tail(values))

\* What an evaluation of the atom derive(deps, op) has come to.  state: "idle",
\* "returned" (the atom's value is value), "threw" (the read function threw
\* reason), "waiting" (the atom's value is a pending promise and
\* Promise.all(values) has not settled), "gathered" (the promise soonAll
\* returned has fulfilled with values; the callback soon attached to it has
\* not run yet), "fulfilled" / "rejected" (the atom's value is a promise, and
\* its state).  calls counts the invocations of op, arg is the arguments of
\* the last one.
IdleDerive ==
    [state |-> "idle", op |-> NONE, values |-> <<>>, value |-> NONE,
     reason |-> NONE, calls |-> 0, arg |-> NONE]

\* the read function of the atom without its try / catch
deriveReadUncaught(cch, deps, op, getThrows) ==
    LET drv == [IdleDerive EXCEPT !.op = op]
    IN  IF getThrows
        THEN [drv EXCEPT !.state = "threw", !.reason = GET_THROWN]
        ELSE LET all == soonAll(cch, deps)
             IN  IF all.state = "returned"
                 THEN LET call == soonImpl(cch, Plain(Join(all.value)), op)
                      IN  [drv EXCEPT !.state = call.state,
                                      !.value = call.value, !.reason = call.reason,
                                      !.calls = call.calls, !.arg = call.arg]
                 ELSE [drv EXCEPT !.state = "waiting"]

\* The read function of the atom derive(deps, op), up to its return:
\* try { return soon(soonAll(deps.map(get)), (values) => op(...values)) }
\* catch (err) { return Promise.reject(err) }.  getThrows: a get(dep) throws.
\* The array soonAll returns is not a promise for soon; the promise soonAll
\* returns is a new one, which no cache record describes as settled.
deriveRead(cch, deps, op, getThrows) ==
    LET drv == [IdleDerive EXCEPT !.op = op]
    IN  IF getThrows
        THEN \* deps.map(get) throws: return Promise.reject(err)
             [drv EXCEPT !.state = "rejected", !.reason = GET_THROWN]
        ELSE LET all == soonAll(cch, deps)
             IN  IF all.state = "returned"
                 THEN LET call == soonImpl(cch, Plain(Join(all.value)), op)
                      IN  [drv EXCEPT !.state = IF call.state = "threw"
                                                THEN "rejected" ELSE call.state,
                                      !.value = call.value, !.reason = call.reason,
                                      !.calls = call.calls, !.arg = call.arg]
                 ELSE \* soon(promise, ...) returns promise.then(...)
                      [drv EXCEPT !.state = "waiting"]

\* the fulfilment callback soon attached to the promise soonAll returned:
\* return process(value), i.e. op(...values); what it throws rejects the
\* atom's promise
deriveOnFulfilled(drv) ==
    LET r == Call(drv.op, Join(drv.values))
    IN  IF r.threw
        THEN [drv EXCEPT !.state = "rejected", !.reason = r.v,
                         !.calls = drv.calls + 1, !.arg = Join(drv.values)]
        ELSE [drv EXCEPT !.state = "fulfilled", !.value = r.v,
                         !.calls = drv.calls + 1, !.arg = Join(drv.values)]

\* the rejection callback soon attached to the promise soonAll returned:
\* throw reason
deriveOnRejected(drv, reason) ==
    [drv EXCEPT !.state = "rejected", !.reason = reason]

(* ----------------------- eager suspension engine ---------------------- *)
\* A read function.  It reads the dependencies deps, one eagerGet(atom) (or
\* eagerGet.await(value)) after the other when mode is "get", with one
\* eagerGet.all(atoms) when mode is "all", with one eagerGet.awaitAll(values)
\* when mode is "awaitAll"; then it throws the value throws, or, throws being
\* NONE, returns the array of what it read.  The value of an atom is the
\* element of deps that stands for it.  When catches is TRUE the reads are
\* inside a try whose catch rethrows the suspension signal, as the
\* documentation of isEagerError tells it to, and handles any other error by
\* returning the array [FALLBACK]:
\*   try { reads } catch (e) { if (isEagerError(e)) throw e; return [FALLBACK] }
Modes == {"get", "all", "awaitAll"}
BodyThrows == {"Err", UNDEFINED}
FALLBACK == "fallback"
Bodies ==
    [mode : Modes, deps : Arrays, throws : {NONE} \cup BodyThrows, catches : BOOLEAN]
NoBody == [mode |-> "get", deps |-> <<>>, throws |-> NONE, catches |-> FALSE]

\* values x for which x[NotYet] is itself a TypeError
Nullish == {UNDEFINED, "null"}

\* unwrapPromise with the promise itself returned for a fulfilled promise
unwrapPromiseNotUnwrapped(cch, x) ==
    LET meta == getPromiseMeta(cch, x)
    IN  IF meta = NoMeta
        THEN [kind |-> "value", v |-> x.v, on |-> 0]
        ELSE IF meta.status = "pending"
             THEN [kind |-> "suspend", v |-> NONE, on |-> x.id]
             ELSE IF meta.status = "rejected"
                  THEN [kind |-> "throw", v |-> meta.reason, on |-> 0]
                  ELSE [kind |-> "value", v |-> x.v, on |-> 0]

\* unwrapPromise: kind "value" (returns v), "throw" (throws v, a rejection
\* reason) or "suspend" (throws { [NotYet]: the promise on })
unwrapPromise(cch, x) ==
    LET meta == getPromiseMeta(cch, x)
    IN  IF meta = NoMeta
        THEN [kind |-> "value", v |-> x.v, on |-> 0]
        ELSE IF meta.status = "pending"
             THEN [kind |-> "suspend", v |-> NONE, on |-> x.id]
             ELSE IF meta.status = "rejected"
                  THEN [kind |-> "throw", v |-> meta.reason, on |-> 0]
                  ELSE [kind |-> "value", v |-> meta.value, on |-> 0]

Event(op, idx) == [op |-> op, idx |-> idx]

Outcome(kind, value, err, on, trace) ==
    [kind |-> kind, value |-> value, err |-> err, on |-> on, trace |-> trace]

\* values.map((v) => unwrapPromise(v)) from idx on: acc holds what was
\* unwrapped so far, trace the calls made so far
RECURSIVE unwrapEach(_, _, _, _, _)
unwrapEach(cch, values, idx, acc, trace) ==
    IF idx > Len(values)
    THEN Outcome("return", acc, NONE, 0, trace)
    ELSE LET u == unwrapPromise(cch, values[idx])
             t == Append(trace, Event("unwrap", idx))
         IN  IF u.kind = "value"
             THEN unwrapEach(cch, values, idx + 1, Append(acc, u.v), t)
             ELSE Outcome(u.kind, <<>>, u.v, u.on, t)

\* eagerGet with every atom started before the first one is unwrapped, as
\* eagerGet.all does
eagerGetEachJumpStarted(cch, atoms, idx, acc, trace) ==
    unwrapEach(cch, atoms, idx, acc,
               trace \o [i \in 1..Len(atoms) |-> Event("get", i)])

\* eagerGet(atom), one atom after the other: unwrapPromise(get(atomToGet))
RECURSIVE eagerGetEach(_, _, _, _, _)
eagerGetEach(cch, atoms, idx, acc, trace) ==
    IF idx > Len(atoms)
    THEN Outcome("return", acc, NONE, 0, trace)
    ELSE LET u == unwrapPromise(cch, atoms[idx])
             t == trace \o <<Event("get", idx), Event("unwrap", idx)>>
         IN  IF u.kind = "value"
             THEN eagerGetEach(cch, atoms, idx + 1, Append(acc, u.v), t)
             ELSE Outcome(u.kind, <<>>, u.v, u.on, t)

\* eagerGet.all with each atom read and unwrapped before the next one is read
eagerGetAllOneByOne(cch, atoms) == eagerGetEach(cch, atoms, 1, <<>>, <<>>)

\* eagerGet.all(atoms): atoms.map((a) => get(a)).map((v) => unwrapPromise(v))
eagerGetAll(cch, atoms) ==
    unwrapEach(cch, atoms, 1, <<>>, [idx \in 1..Len(atoms) |-> Event("get", idx)])

\* eagerGet.awaitAll(values): values.map((v) => unwrapPromise(v))
eagerGetAwaitAll(cch, values) == unwrapEach(cch, values, 1, <<>>, <<>>)

\* compute(): one invocation of read(eagerGet)
Compute(cch, body) ==
    LET reads == CASE body.mode = "get" -> eagerGetEach(cch, body.deps, 1, <<>>, <<>>)
                   [] body.mode = "all" -> eagerGetAll(cch, body.deps)
                   [] OTHER -> eagerGetAwaitAll(cch, body.deps)
    IN  IF reads.kind = "return" /\ body.throws # NONE
        THEN Outcome("throw", <<>>, body.throws, 0, reads.trace)
        ELSE IF reads.kind = "throw" /\ body.catches
             THEN \* the catch block of the read function handles the error
                  Outcome("return", <<FALLBACK>>, NONE, 0, reads.trace)
             ELSE reads

\* What a run (one evaluation of the eager atom) has come to.  state: "idle",
\* "returned" (resolveSuspension returned value synchronously), "threw" (it
\* threw reason synchronously), "suspended" (it returned a promise, pending,
\* and waits for the promise on), "fulfilled" / "rejected" (the promise it
\* returned has settled).  invocations counts the calls of compute,
\* suspensions lists the promises a follow-up was attached to, trace holds the
\* calls of the last invocation.
IdleRun ==
    [state |-> "idle", on |-> 0, value |-> <<>>, reason |-> NONE,
     invocations |-> 0, suspensions |-> <<>>, trace |-> <<>>]

\* the suspension signal { [NotYet]: promise } as a value, were it to come out
\* of a run
NOT_YET == "{[NotYet]}"

\* isEagerError(e) for what an invocation of the read function threw: of the
\* values thrown, only the suspension signal has a NotYet property
isEagerError(out) == out.kind = "suspend"

\* resolveSuspension without its test of e[NotYet]: the suspension signal is
\* rejected like any other error
resolveSuspensionSignalRejected(cch, body, run, first) ==
    LET out == Compute(cch, body)
        n == run.invocations + 1
    IN  CASE out.kind = "return" ->
               [run EXCEPT !.state = IF first THEN "returned" ELSE "fulfilled",
                           !.on = 0, !.value = out.value,
                           !.invocations = n, !.trace = out.trace]
          [] out.kind = "suspend" ->
               [run EXCEPT !.state = "rejected", !.on = 0, !.reason = NOT_YET,
                           !.invocations = n, !.trace = out.trace]
          [] OTHER ->
               [run EXCEPT !.state = "rejected", !.on = 0, !.reason = out.err,
                           !.invocations = n, !.trace = out.trace]

\* resolveSuspension(compute, signal), up to its return.  first: the call made
\* by the atom's read, whose return or throw is synchronous; otherwise the
\* call made by the fulfilment callback, whose return or throw settles the
\* promise the run returned.
resolveSuspension(cch, body, run, first) ==
    LET out == Compute(cch, body)
        n == run.invocations + 1
    IN  CASE out.kind = "return" ->
               [run EXCEPT !.state = IF first THEN "returned" ELSE "fulfilled",
                           !.on = 0, !.value = out.value,
                           !.invocations = n, !.trace = out.trace]
          [] out.kind = "suspend" ->
               \* return suspended.then(onFulfilled, onRejected)
               [run EXCEPT !.state = "suspended", !.on = out.on,
                           !.invocations = n, !.trace = out.trace,
                           !.suspensions = Append(run.suspensions, out.on)]
          [] OTHER ->
               IF out.err \in Nullish
               THEN \* e[NotYet] throws a TypeError inside the catch block
                    [run EXCEPT !.state = IF first THEN "threw" ELSE "rejected",
                                !.on = 0, !.reason = TYPE_ERROR,
                                !.invocations = n, !.trace = out.trace]
               ELSE \* return Promise.reject(e)
                    [run EXCEPT !.state = "rejected", !.on = 0, !.reason = out.err,
                                !.invocations = n, !.trace = out.trace]

\* the fulfilment callback of resolveSuspension, were the runs to share one
\* signal: aborting any run stops this one
runOnFulfilledSharedSignal(cch, body, run, value, isAborted) ==
    LET cch1 == setPromiseMeta(cch, run.on, FulfilledMeta(value))
    IN  [cache |-> cch1,
         run |-> IF \E q \in 1..NumRuns : aborted[q]
                 THEN [run EXCEPT !.state = "fulfilled", !.on = 0, !.value = <<UNDEFINED>>]
                 ELSE resolveSuspension(cch1, body, run, FALSE)]

\* the fulfilment callback of resolveSuspension without its setPromiseMeta
runOnFulfilledNotRecorded(cch, body, run, value, isAborted) ==
    [cache |-> cch,
     run |-> IF isAborted
             THEN [run EXCEPT !.state = "fulfilled", !.on = 0, !.value = <<UNDEFINED>>]
             ELSE resolveSuspension(cch, body, run, FALSE)]

\* the fulfilment callback of resolveSuspension
runOnFulfilled(cch, body, run, value, isAborted) ==
    LET cch1 == setPromiseMeta(cch, run.on, FulfilledMeta(value))
    IN  [cache |-> cch1,
         run |-> IF isAborted
                 THEN \* return undefined
                      [run EXCEPT !.state = "fulfilled", !.on = 0, !.value = <<UNDEFINED>>]
                 ELSE resolveSuspension(cch1, body, run, FALSE)]

\* the rejection callback of resolveSuspension without its look at the signal
runOnRejectedWhateverTheSignal(cch, run, reason, isAborted) ==
    [cache |-> setPromiseMeta(cch, run.on, RejectedMeta(reason)),
     run |-> [run EXCEPT !.state = "rejected", !.on = 0, !.reason = reason]]

\* the rejection callback of resolveSuspension
runOnRejected(cch, run, reason, isAborted) ==
    IF isAborted
    THEN \* return undefined
         [cache |-> cch,
          run |-> [run EXCEPT !.state = "fulfilled", !.on = 0, !.value = <<UNDEFINED>>]]
    ELSE \* setPromiseMeta(...); throw reason
         [cache |-> setPromiseMeta(cch, run.on, RejectedMeta(reason)),
          run |-> [run EXCEPT !.state = "rejected", !.on = 0, !.reason = reason]]

(* ------------------------------ actions ------------------------------- *)
\* the host settles a pending promise
Settle(p, outcome) ==
    /\ promises[p].status = "pending"
    /\ promises' = [promises EXCEPT ![p] = outcome]
    /\ UNCHANGED <<cache, soonCalls, array, allCalls, read, runs, aborted, derived>>

\* soon(data, process); the calls are made in the order of their index
SoonCall(c, data, process) ==
    /\ soonCalls[c].state = "idle"
    /\ \A d \in 1..(c - 1) : soonCalls[d].state # "idle"
    /\ soonCalls' = [soonCalls EXCEPT ![c] = soonImpl(cache, data, process)]
    /\ UNCHANGED <<promises, cache, array, allCalls, read, runs, aborted, derived>>

\* the callback soon attached runs, the promise having settled
SoonSettled(c) ==
    LET call == soonCalls[c]
        settled == promises[call.data.id]
        after == IF settled.status = "fulfilled"
                 THEN soonOnFulfilled(cache, call, settled.value)
                 ELSE soonOnRejected(cache, call, settled.reason)
    IN  /\ call.state = "pending"
        /\ settled.status # "pending"
        /\ cache' = after.cache
        /\ soonCalls' = [soonCalls EXCEPT ![c] = after.call]
        /\ UNCHANGED <<promises, array, allCalls, read, runs, aborted, derived>>

\* soonAll(array); the calls are made in the order of their index
AllCall(c) ==
    /\ allCalls[c].state = "idle"
    /\ \A d \in 1..(c - 1) : allCalls[d].state # "idle"
    /\ allCalls' = [allCalls EXCEPT ![c] = soonAll(cache, array)]
    /\ UNCHANGED <<promises, cache, soonCalls, array, read, runs, aborted, derived>>

\* Promise.all(array) has fulfilled and soonAll's callback runs
AllFulfilled(c) ==
    LET after == allOnFulfilled(cache, array, PromiseAllValues(promises, array))
    IN  /\ allCalls[c].state = "pending"
        /\ PromiseAllFulfilled(promises, array)
        /\ cache' = after.cache
        /\ allCalls' = [allCalls EXCEPT ![c] = after.call]
        /\ UNCHANGED <<promises, soonCalls, array, read, runs, aborted, derived>>

\* soonAll, had it given Promise.all(values).then a rejection callback that
\* records the elements that have settled before it rethrows
AllRejectedRecording(c) ==
    /\ allCalls[c].state = "pending"
    /\ \E reason \in PromiseAllReasons(promises, array) :
           allCalls' = [allCalls EXCEPT ![c] = AllResult("rejected", <<>>, reason)]
    /\ cache' = [p \in Promises |->
                    IF \E idx \in 1..Len(array) : array[idx] = PromiseOf(p)
                    THEN promises[p] ELSE cache[p]]
    /\ UNCHANGED <<promises, soonCalls, array, read, runs, aborted, derived>>

\* Promise.all(array) has rejected: soonAll gave no rejection callback, so
\* the promise it returned rejects with the same reason
AllRejected(c) ==
    /\ allCalls[c].state = "pending"
    /\ \E reason \in PromiseAllReasons(promises, array) :
           allCalls' = [allCalls EXCEPT ![c] = AllResult("rejected", <<>>, reason)]
    /\ UNCHANGED <<promises, cache, soonCalls, array, read, runs, aborted, derived>>

\* the store evaluates the eager atom: resolveSuspension(() => read(eagerGet), signal)
StartRun(r) ==
    /\ runs[r].state = "idle"
    /\ \A q \in 1..(r - 1) : runs[q].state # "idle"
    /\ runs' = [runs EXCEPT ![r] = resolveSuspension(cache, read, runs[r], TRUE)]
    /\ UNCHANGED <<promises, cache, soonCalls, array, allCalls, read, aborted, derived>>

\* the callback resolveSuspension attached runs, the promise having settled
RunSettled(r) ==
    LET run == runs[r]
        settled == promises[run.on]
        after == IF settled.status = "fulfilled"
                 THEN runOnFulfilled(cache, read, run, settled.value, aborted[r])
                 ELSE runOnRejected(cache, run, settled.reason, aborted[r])
    IN  /\ run.state = "suspended"
        /\ settled.status # "pending"
        /\ cache' = after.cache
        /\ runs' = [runs EXCEPT ![r] = after.run]
        /\ UNCHANGED <<promises, soonCalls, array, allCalls, read, aborted, derived>>

\* the store aborts the signal of a run whose promise is still pending
Abort(r) ==
    /\ runs[r].state = "suspended"
    /\ ~aborted[r]
    /\ aborted' = [aborted EXCEPT ![r] = TRUE]
    /\ UNCHANGED <<promises, cache, soonCalls, array, allCalls, read, runs, derived>>

\* the store evaluates the atom made by derive(deps, op), deps having the
\* values array: deps is a tuple of one atom at least
DeriveRead(d, op, getThrows) ==
    /\ array # <<>>
    /\ derived[d].state = "idle"
    /\ \A e \in 1..(d - 1) : derived[e].state # "idle"
    /\ derived' = [derived EXCEPT ![d] = deriveRead(cache, array, op, getThrows)]
    /\ UNCHANGED <<promises, cache, soonCalls, array, allCalls, read, runs, aborted>>

\* Promise.all(array) has fulfilled and soonAll's callback runs: the promise
\* soonAll returned fulfils with the payloads
DeriveGathered(d) ==
    LET after == allOnFulfilled(cache, array, PromiseAllValues(promises, array))
    IN  /\ derived[d].state = "waiting"
        /\ PromiseAllFulfilled(promises, array)
        /\ cache' = after.cache
        /\ derived' = [derived EXCEPT ![d].state = "gathered",
                                      ![d].values = after.call.value]
        /\ UNCHANGED <<promises, soonCalls, array, allCalls, read, runs, aborted>>

\* the fulfilment callback soon attached to the promise soonAll returned runs
DeriveFulfilled(d) ==
    /\ derived[d].state = "gathered"
    /\ derived' = [derived EXCEPT ![d] = deriveOnFulfilled(derived[d])]
    /\ UNCHANGED <<promises, cache, soonCalls, array, allCalls, read, runs, aborted>>

\* Promise.all(array) has rejected, so has the promise soonAll returned, and
\* the rejection callback soon attached to it runs
DeriveRejected(d) ==
    /\ derived[d].state = "waiting"
    /\ \E reason \in PromiseAllReasons(promises, array) :
           derived' = [derived EXCEPT ![d] = deriveOnRejected(derived[d], reason)]
    /\ UNCHANGED <<promises, cache, soonCalls, array, allCalls, read, runs, aborted>>

(* --------------------------- specifications --------------------------- *)
InitWith(arrays, bodies) ==
    /\ promises = [p \in Promises |-> PendingMeta]
    /\ cache = [p \in Promises |-> PendingMeta]
    /\ soonCalls = [c \in 1..NumSoon |-> IdleSoon]
    /\ array \in arrays
    /\ allCalls = [c \in 1..NumAll |-> IdleAll]
    /\ read \in bodies
    /\ runs = [r \in 1..NumRuns |-> IdleRun]
    /\ aborted = [r \in 1..NumRuns |-> FALSE]
    /\ derived = [d \in 1..NumDerive |-> IdleDerive]

NextHost == \E p \in Promises : \E outcome \in Outcomes(p) : Settle(p, outcome)

NextSoon ==
    \/ \E c \in 1..NumSoon, data \in Data, process \in Processes : SoonCall(c, data, process)
    \/ \E c \in 1..NumSoon : SoonSettled(c)

NextAll ==
    \/ \E c \in 1..NumAll : AllCall(c)
    \/ \E c \in 1..NumAll : AllFulfilled(c)
    \/ \E c \in 1..NumAll : AllRejected(c)

NextEager ==
    \/ \E r \in 1..NumRuns : StartRun(r)
    \/ \E r \in 1..NumRuns : RunSettled(r)
    \/ \E r \in 1..NumRuns : Abort(r)

\* soon alone
SpecSoon == InitWith({<<>>}, {NoBody}) /\ [][NextHost \/ NextSoon]_vars

\* soonAll alone, whatever the array
SpecAll == InitWith(Arrays, {NoBody}) /\ [][NextHost \/ NextAll]_vars

\* runs of one eager atom, whatever its read function, provided it does not
\* catch what the accessor throws
SpecEager ==
    InitWith({<<>>}, {b \in Bodies : ~b.catches}) /\ [][NextHost \/ NextEager]_vars

\* Runs of one eager atom, the callbacks resolveSuspension gives to .then
\* being jobs of the host's microtask queue: they run once the promise has
\* settled.  Nothing makes the host settle a promise.
FairEager == SpecEager /\ \A r \in 1..NumRuns : WF_vars(RunSettled(r))

\* runs of one eager atom whose read function catches what the accessor
\* throws, and throws nothing itself
SpecCatch ==
    /\ InitWith({<<>>}, {b \in Bodies : b.catches /\ b.throws = NONE})
    /\ [][NextHost \/ NextEager]_vars

NextDerive ==
    \/ \E d \in 1..NumDerive, op \in Processes, getThrows \in BOOLEAN :
           DeriveRead(d, op, getThrows)
    \/ \E d \in 1..NumDerive : DeriveGathered(d)
    \/ \E d \in 1..NumDerive : DeriveFulfilled(d)
    \/ \E d \in 1..NumDerive : DeriveRejected(d)

\* evaluations of one atom made by derive, whatever its dependencies
SpecDerive == InitWith(Arrays, {NoBody}) /\ [][NextHost \/ NextDerive]_vars

\* soonAll alone, the callbacks given to .then being jobs of the host's
\* microtask queue: they run once Promise.all(array) has settled.  Nothing
\* makes the host settle a promise.
FairAll ==
    /\ SpecAll
    /\ \A c \in 1..NumAll : WF_vars(AllFulfilled(c)) /\ WF_vars(AllRejected(c))

\* soon and soonAll sharing the promises.  A callback given to .then is a job
\* of the host's microtask queue, which the host runs to exhaustion: once the
\* promise has settled the callback does run.  Nothing makes the host settle
\* a promise.
SpecAsync ==
    /\ InitWith(Arrays, {NoBody})
    /\ [][NextHost \/ NextSoon \/ NextAll]_vars
    /\ \A c \in 1..NumSoon : WF_vars(SoonSettled(c))
    /\ \A c \in 1..NumAll : WF_vars(AllFulfilled(c)) /\ WF_vars(AllRejected(c))

\* the calls of the library made so far
Calls ==
    Cardinality({c \in 1..NumSoon : soonCalls[c].state # "idle"})
    + Cardinality({c \in 1..NumAll : allCalls[c].state # "idle"})
    + Cardinality({r \in 1..NumRuns : runs[r].state # "idle"})

NextCall ==
    /\ Calls < MaxCalls
    /\ \/ \E c \in 1..NumSoon, data \in Data, process \in Processes : SoonCall(c, data, process)
       \/ \E c \in 1..NumAll : AllCall(c)
       \/ \E r \in 1..NumRuns : StartRun(r)

NextCallback ==
    \/ \E c \in 1..NumSoon : SoonSettled(c)
    \/ \E c \in 1..NumAll : AllFulfilled(c)
    \/ \E c \in 1..NumAll : AllRejected(c)
    \/ \E r \in 1..NumRuns : RunSettled(r)
    \/ \E r \in 1..NumRuns : Abort(r)

\* soon, soonAll and the runs of an eager atom that reads the array soonAll is
\* given, interleaved: at most MaxCalls calls in all
Spec ==
    /\ InitWith(Arrays, {b \in Bodies : b.deps = array /\ ~b.catches})
    /\ [][NextHost \/ NextCall \/ NextCallback]_vars

(* ------------------------------- claims ------------------------------- *)
Final == {"returned", "threw", "fulfilled", "rejected"}

\* the payload of x: x itself, or what the promise x has fulfilled with
PayloadIn(proms, x) == IF isPromiseLike(x) THEN proms[x.id].value ELSE x.v

\* x is known to the cache cch: not a promise, or a promise with a Fulfilled record
KnownTo(cch, x) == ~isPromiseLike(x) \/ cch[x.id].status = "fulfilled"

RunStarted(r) == runs[r].state = "idle" /\ runs'[r].state # "idle"

\* the elements of the sequence seq
Range(seq) == {seq[i] : i \in 1..Len(seq)}

\* C1: a run that starts when every dependency its read function reads is
\* known (not a promise, or Fulfilled in the cache), the read function
\* returning a value, returns that value synchronously, after one invocation
\* of the read function and with no follow-up attached to any promise; and a
\* run that has returned is never touched again.
C1_EagerRunReturnsNow ==
    [][\A r \in 1..NumRuns :
          /\ (/\ RunStarted(r)
              /\ read.throws = NONE
              /\ \A idx \in 1..Len(read.deps) : KnownTo(cache, read.deps[idx]))
             => /\ runs'[r].state = "returned"
                /\ runs'[r].value
                       = [idx \in 1..Len(read.deps) |-> PayloadIn(promises, read.deps[idx])]
                /\ runs'[r].invocations = 1
                /\ runs'[r].suspensions = <<>>
          /\ runs[r].state = "returned" => runs'[r] = runs[r]]_vars

C1_Witness ==
    \E r \in 1..NumRuns :
        /\ runs[r].state = "returned"
        /\ runs[r].invocations = 1
        /\ \E i, j \in 1..Len(read.deps) :
               isPromiseLike(read.deps[i]) /\ ~isPromiseLike(read.deps[j])

\* C2: whenever an invocation of the read function throws a value that is not
\* the suspension signal (what the read function itself throws, undefined
\* included, or a cached rejection reason thrown by unwrapPromise), the run
\* ends with a promise rejected with exactly that value; it never throws.
C2_BodyThrowIsRejection ==
    [][\A r \in 1..NumRuns :
          (/\ runs'[r].invocations = runs[r].invocations + 1
           /\ Compute(cache', read).kind = "throw")
          => /\ runs'[r].state = "rejected"
             /\ runs'[r].reason = Compute(cache', read).err]_vars

\* C4 as claimed: a run whose read function reads its dependencies with one
\* eagerGet.all / eagerGet.awaitAll suspends at most once.
C4_BatchSuspendsOnce ==
    \A r \in 1..NumRuns :
        read.mode \in {"all", "awaitAll"} => Len(runs[r].suspensions) <= 1

\* C4 as amended: such a run suspends at most once for each promise of the
\* batch, so at most as many times as the batch holds distinct promises.
C4_BatchSuspendsOncePerPromise ==
    \A r \in 1..NumRuns :
        read.mode \in {"all", "awaitAll"}
        => LET susp == runs[r].suspensions
           IN  /\ \A i, j \in 1..Len(susp) : i # j => susp[i] # susp[j]
               /\ \A i \in 1..Len(susp) : PromiseOf(susp[i]) \in Range(read.deps)
               /\ Len(susp) <= Cardinality({x \in Range(read.deps) : isPromiseLike(x)})
               /\ Len(susp) <= Len(read.deps)

C4_Witness ==
    \E r \in 1..NumRuns :
        /\ read.mode = "all"
        /\ Len(runs[r].suspensions) = 2
        /\ runs[r].state = "fulfilled"

\* C5: when the callback of a suspended run runs with the run's signal
\* aborted, the promise having fulfilled or rejected, the read function is not
\* invoked and the run's promise fulfils with undefined; and a run that has
\* ended is never touched again.
C5_AbortedRunEndsInert ==
    [][\A r \in 1..NumRuns :
          /\ (runs[r].state = "suspended" /\ aborted[r] /\ runs'[r] # runs[r])
             => /\ runs'[r].state = "fulfilled"
                /\ runs'[r].value = <<UNDEFINED>>
                /\ runs'[r].invocations = runs[r].invocations
          /\ runs[r].state \in Final => runs'[r] = runs[r]]_vars

C5_Witness ==
    \E r \in 1..NumRuns :
        /\ aborted[r]
        /\ runs[r].state = "fulfilled"
        /\ runs[r].value = <<UNDEFINED>>
        /\ promises[runs[r].suspensions[Len(runs[r].suspensions)]].status = "rejected"

\* C6: once the cache holds Fulfilled or Rejected for a promise, no step of
\* soon, soonAll or a run, in whatever interleaving, changes that record.
C6_CacheMonotonic ==
    [][\A p \in Promises : cache[p].status # "pending" => cache'[p] = cache[p]]_vars

\* a promise whose record was written by soon, by soonAll and by a run
C6_Witness ==
    \E p \in Promises :
        /\ cache[p].status = "fulfilled"
        /\ \E c \in 1..NumSoon :
               /\ soonCalls[c].data = PromiseOf(p)
               /\ soonCalls[c].meta.status = "pending"
               /\ soonCalls[c].state = "fulfilled"
        /\ \E c \in 1..NumAll :
               allCalls[c].state = "fulfilled" /\ PromiseOf(p) \in Range(array)
        /\ \E r \in 1..NumRuns :
               p \in Range(runs[r].suspensions) /\ runs[r].state = "fulfilled"

\* C3: whenever soon was given a known fulfilled value (a plain value, or a
\* promise the cache holds Fulfilled for) and the continuation threw, soon
\* returned a promise rejected with what the continuation threw; it did not
\* throw.
C3_ContinuationThrowIsRejection ==
    \A c \in 1..NumSoon :
        LET call == soonCalls[c]
        IN  (/\ call.state # "idle"
             /\ call.meta.status \in {"absent", "fulfilled"}
             /\ call.process = "throws")
            => /\ call.state = "rejected"
               /\ call.reason = THROWN

\* C9: whenever soon was given a promise the cache holds Rejected for, the
\* continuation is not invoked and soon returned a promise rejected with the
\* cached reason.
C9_KnownRejection ==
    \A c \in 1..NumSoon :
        LET call == soonCalls[c]
        IN  (call.state # "idle" /\ call.meta.status = "rejected")
            => /\ call.state = "rejected"
               /\ call.reason = call.meta.reason
               /\ call.calls = 0

C9_Witness ==
    \E c \in 1..NumSoon :
        /\ soonCalls[c].meta.status = "rejected"
        /\ soonCalls[c].state = "rejected"
        /\ soonCalls[c].process = "f"

\* C10: whenever soon was given a promise the cache holds Pending for, soon
\* returned a promise, and the continuation is not invoked before the promise
\* given settles.  Once the callback has run: if the promise given fulfilled,
\* the continuation was invoked once, with the payload, the cache already
\* holding Fulfilled with that payload, and the promise returned is fulfilled
\* with the continuation's result, or rejected with what it threw; if the
\* promise given rejected, the continuation was not invoked, the cache holds
\* Rejected with the reason and the promise returned is rejected with it.
C10_PendingThenSettled ==
    \A c \in 1..NumSoon :
        LET call == soonCalls[c]
            given == promises[call.data.id]
            r == Call(call.process, given.value)
        IN  (call.state # "idle" /\ call.meta.status = "pending")
            => /\ call.state \in {"pending", "fulfilled", "rejected"}
               /\ call.state = "pending" => call.calls = 0
               /\ (call.state # "pending" /\ given.status = "fulfilled")
                  => /\ call.calls = 1
                     /\ call.arg = given.value
                     /\ call.seen = FulfilledMeta(given.value)
                     /\ cache[call.data.id] = FulfilledMeta(given.value)
                     /\ IF r.threw
                        THEN call.state = "rejected" /\ call.reason = r.v
                        ELSE call.state = "fulfilled" /\ call.value = r.v
               /\ (call.state # "pending" /\ given.status = "rejected")
                  => /\ call.calls = 0
                     /\ cache[call.data.id] = RejectedMeta(given.reason)
                     /\ call.state = "rejected"
                     /\ call.reason = given.reason
               /\ call.state # "pending" => given.status # "pending"

C10_Witness ==
    \E c \in 1..NumSoon :
        /\ soonCalls[c].meta.status = "pending"
        /\ soonCalls[c].state = "fulfilled"
        /\ soonCalls[c].calls = 1

AllCalled(c) == allCalls[c].state = "idle" /\ allCalls'[c].state # "idle"

\* C7: a call of soonAll with every element known returns synchronously an
\* array of the same length whose entries are the payloads of the elements,
\* in order (the empty array for the empty array).
C7_AllKnownReturnsPayloads ==
    [][\A c \in 1..NumAll :
          (AllCalled(c) /\ \A idx \in 1..Len(array) : KnownTo(cache, array[idx]))
          => /\ allCalls'[c].state = "returned"
             /\ Len(allCalls'[c].value) = Len(array)
             /\ \A idx \in 1..Len(array) :
                    allCalls'[c].value[idx] = PayloadIn(promises, array[idx])]_vars

C7_Witness ==
    \E c \in 1..NumAll :
        /\ allCalls[c].state = "returned"
        /\ \E i, j \in 1..Len(array) : i < j /\ isPromiseLike(array[i]) /\ ~isPromiseLike(array[j])

\* C8: a call of soonAll with an element that is not known returns a promise.
\* When that promise fulfils, every promise of the array has fulfilled, the
\* value is the array of the payloads in order, and the cache holds, for
\* every promise of the array, Fulfilled with that promise's own payload, so
\* that soonAll, soon and unwrapPromise then take the synchronous path for it.
C8_AllRecordsEachElement ==
    [][\A c \in 1..NumAll :
          /\ (AllCalled(c) /\ \E idx \in 1..Len(array) : ~KnownTo(cache, array[idx]))
             => allCalls'[c].state = "pending"
          /\ (allCalls[c].state = "pending" /\ allCalls'[c].state = "fulfilled")
             => /\ Len(allCalls'[c].value) = Len(array)
                /\ \A idx \in 1..Len(array) :
                      /\ allCalls'[c].value[idx] = PayloadIn(promises, array[idx])
                      /\ isPromiseLike(array[idx]) =>
                            /\ promises[array[idx].id].status = "fulfilled"
                            /\ cache'[array[idx].id]
                                   = FulfilledMeta(promises[array[idx].id].value)
                            /\ soonImpl(cache', array[idx], "f").state = "returned"
                            /\ unwrapPromise(cache', array[idx]).kind = "value"
                /\ soonAll(cache', array).state = "returned"]_vars

C8_Witness ==
    \E c \in 1..NumAll :
        /\ allCalls[c].state = "fulfilled"
        /\ \E i, j \in 1..Len(array) :
               /\ isPromiseLike(array[i]) /\ isPromiseLike(array[j])
               /\ array[i] # array[j]
\* the read function reads a promise A with eagerGet and then a dependency B
ReadsInTurn ==
    read.mode = "get" /\ Len(read.deps) = 2 /\ isPromiseLike(read.deps[1])

\* C11: for a read function that reads A and then B with eagerGet, A being
\* Pending in the cache when the run starts: the run suspends on A without
\* having read B; if A rejects and the run is not aborted, the run's promise
\* rejects with A's reason, the read function is not invoked again and B is
\* never read in that run; an invocation reads B only when A has fulfilled.
C11_RejectionSkipsLaterReads ==
    [][\A r \in 1..NumRuns :
          ReadsInTurn =>
              LET a == read.deps[1].id
              IN  /\ (RunStarted(r) /\ cache[a].status = "pending")
                     => /\ runs'[r].state = "suspended"
                        /\ runs'[r].on = a
                        /\ Event("get", 2) \notin Range(runs'[r].trace)
                  /\ (/\ runs[r].state = "suspended"
                      /\ runs[r].invocations = 1
                      /\ ~aborted[r]
                      /\ promises[a].status = "rejected"
                      /\ runs'[r] # runs[r])
                     => /\ runs'[r].state = "rejected"
                        /\ runs'[r].reason = promises[a].reason
                        /\ runs'[r].invocations = 1
                        /\ Event("get", 2) \notin Range(runs'[r].trace)
                  /\ Event("get", 2) \in Range(runs'[r].trace)
                     => /\ promises[a].status = "fulfilled"
                        /\ cache'[a] = promises[a]]_vars

\* A rejected while B was still pending, and the run rejected with A's reason
C11_Witness ==
    \E r \in 1..NumRuns :
        /\ ReadsInTurn
        /\ isPromiseLike(read.deps[2])
        /\ read.deps[2] # read.deps[1]
        /\ promises[read.deps[2].id].status = "pending"
        /\ ~aborted[r]
        /\ runs[r].state = "rejected"
        /\ runs[r].reason = ReasonOf(read.deps[1].id)
        /\ runs[r].suspensions = <<read.deps[1].id>>

\* the ways the promises can all have settled, given how far they have
EventualOutcomes ==
    {full \in [Promises -> UNION {Outcomes(p) : p \in Promises}] :
        \A p \in Promises :
            /\ full[p] \in Outcomes(p)
            /\ promises[p].status # "pending" => full[p] = promises[p]}

\* the final outcome of a run: the value it returned or fulfilled with, or the
\* reason it threw or rejected with
FinalOutcome(run) ==
    [failed |-> run.state \in {"threw", "rejected"},
     value |-> run.value, reason |-> run.reason]

\* C12: the final outcome of a run that was not aborted, after whatever
\* suspensions and restarts and whatever the order in which the promises
\* settled, is the final outcome of a run of the same read function started
\* with every promise already recorded as settled in the cache, whatever the
\* promises still pending settle to.
C12_ReplaySafe ==
    \A r \in 1..NumRuns :
        (runs[r].state \in Final /\ ~aborted[r])
        => \A full \in EventualOutcomes :
               FinalOutcome(runs[r])
                   = FinalOutcome(resolveSuspension(full, read, IdleRun, TRUE))

\* C13: no run ever returns, fulfils with, throws or rejects with the
\* suspension signal; and whenever an invocation of the read function throws
\* the suspension signal, resolveSuspension consumes it: the run is then
\* suspended, a follow-up attached to the promise the signal names.
C13_SignalNeverLeaks ==
    [][\A r \in 1..NumRuns :
          /\ runs'[r].reason # NOT_YET
          /\ NOT_YET \notin Range(runs'[r].value)
          /\ (/\ runs'[r].invocations = runs[r].invocations + 1
              /\ isEagerError(Compute(cache', read)))
             => /\ runs'[r].state = "suspended"
                /\ runs'[r].on = Compute(cache', read).on
                /\ runs'[r].suspensions
                       = Append(runs[r].suspensions, Compute(cache', read).on)]_vars

\* the signal was raised and consumed twice, then the read function threw
C13_Witness ==
    \E r \in 1..NumRuns :
        /\ Len(runs[r].suspensions) = 2
        /\ runs[r].state = "rejected"
        /\ runs[r].reason = "Err"

\* await data, then process: what `process(await data)` comes to once the
\* promise data has settled
AwaitThenProcess(proms, data, process) ==
    IF proms[data.id].status = "rejected"
    THEN [state |-> "rejected", value |-> NONE, reason |-> proms[data.id].reason]
    ELSE LET r == Call(process, proms[data.id].value)
         IN  IF r.threw
             THEN [state |-> "rejected", value |-> NONE, reason |-> r.v]
             ELSE [state |-> "fulfilled", value |-> r.v, reason |-> NONE]

\* the promise soon call c returned has settled as process(await data) does
SoonSettledAsAwaited(c) ==
    LET call == soonCalls[c]
    IN  /\ call.state \in {"fulfilled", "rejected"}
        /\ isPromiseLike(call.data)
        /\ [state |-> call.state, value |-> call.value, reason |-> call.reason]
               = AwaitThenProcess(promises, call.data, call.process)

\* the promise soonAll call c returned has settled as await Promise.all(array)
\* does
AllSettledAsAwaited(c) ==
    IF PromiseAllFulfilled(promises, array)
    THEN allCalls[c] = AllResult("fulfilled", PromiseAllValues(promises, array), NONE)
    ELSE /\ allCalls[c].state = "rejected"
         /\ allCalls[c].reason \in PromiseAllReasons(promises, array)

\* every promise of the array has settled
InputsSettled ==
    \A idx \in 1..Len(array) :
        isPromiseLike(array[idx]) => promises[array[idx].id].status # "pending"

\* C14: soon called with a promise that is Pending in the cache, and soonAll
\* called with an element that is not known, return a pending promise; and
\* once the promise given to soon (every promise given to soonAll) has
\* settled, the promise returned eventually settles, as process(await data)
\* (as await Promise.all(array)) settles: fulfilled with the continuation's
\* result (with the payloads in order), or rejected with the same reason.
C14_HandleSettlesAsAwaited ==
    /\ [][/\ \A c \in 1..NumSoon :
               (/\ soonCalls[c].state = "idle" /\ soonCalls'[c].state # "idle"
                /\ isPromiseLike(soonCalls'[c].data)
                /\ cache[soonCalls'[c].data.id].status = "pending")
               => soonCalls'[c].state = "pending"
          /\ \A c \in 1..NumAll :
               (AllCalled(c) /\ \E idx \in 1..Len(array) : ~KnownTo(cache, array[idx]))
               => allCalls'[c].state = "pending"]_vars
    /\ \A c \in 1..NumSoon :
           (/\ soonCalls[c].state = "pending"
            /\ promises[soonCalls[c].data.id].status # "pending")
           ~> SoonSettledAsAwaited(c)
    /\ \A c \in 1..NumAll :
           (allCalls[c].state = "pending" /\ InputsSettled) ~> AllSettledAsAwaited(c)

\* a promise returned by soon that rejected with what the continuation threw,
\* and a promise returned by soonAll that fulfilled with two payloads
C14_Witness ==
    \E c \in 1..NumSoon, d \in 1..NumAll :
        /\ soonCalls[c].meta.status = "pending"
        /\ soonCalls[c].state = "rejected"
        /\ soonCalls[c].reason = THROWN
        /\ allCalls[d].state = "fulfilled"
        /\ Len(allCalls[d].value) = 2

DeriveStarted(d) == derived[d].state = "idle" /\ derived'[d].state # "idle"

\* a promise of the array has rejected
SomeRejected ==
    \E idx \in 1..Len(array) :
        isPromiseLike(array[idx]) /\ promises[array[idx].id].status = "rejected"

\* C15: an evaluation of derive(deps, op) never throws.  When no get throws
\* and every dependency value is known, op is invoked in the evaluation
\* itself, with the payloads in the order of deps; when one is not known, the
\* atom's value is a pending promise and op is invoked only once every promise
\* has fulfilled, with the payloads in the order of deps.  What op throws, at
\* either moment, rejects the atom's promise, as does what a get throws; once
\* a dependency has rejected op is not invoked and the pending promise can
\* only reject, with the reason of a dependency.
C15_DeriveRejectsNeverThrows ==
    [][\A d \in 1..NumDerive :
          LET old == derived[d]
              new == derived'[d]
          IN  /\ new.state # "threw"
              /\ (DeriveStarted(d) /\ new.reason = GET_THROWN)
                 => new.state = "rejected" /\ new.calls = 0
              /\ (/\ DeriveStarted(d) /\ new.reason # GET_THROWN
                  /\ \A idx \in 1..Len(array) : KnownTo(cache, array[idx]))
                 => /\ new.calls = 1
                    /\ new.arg = Join([idx \in 1..Len(array) |->
                                          PayloadIn(promises, array[idx])])
                    /\ new.state \in {"returned", "rejected"}
              /\ (/\ DeriveStarted(d) /\ new.reason # GET_THROWN
                  /\ \E idx \in 1..Len(array) : ~KnownTo(cache, array[idx]))
                 => new.state = "waiting" /\ new.calls = 0
              /\ (old.state # "idle" /\ new.calls # old.calls)
                 => /\ PromiseAllFulfilled(promises, array)
                    /\ new.calls = 1
                    /\ new.arg = Join(PromiseAllValues(promises, array))
                    /\ new.state \in {"fulfilled", "rejected"}
              /\ new.calls # old.calls
                 => IF new.op = "throws"
                    THEN new.state = "rejected" /\ new.reason = THROWN
                    ELSE /\ new.state \in {"returned", "fulfilled"}
                         /\ new.value = Call(new.op, new.arg).v
              /\ SomeRejected => new.calls = old.calls
              /\ (old.state = "waiting" /\ SomeRejected /\ new # old)
                 => /\ new.state = "rejected"
                    /\ new.reason \in PromiseAllReasons(promises, array)
                    /\ new.calls = 0]_vars

\* op threw in an evaluation that had waited for the promises, and in a later
\* one that found them in the cache
C15_Witness ==
    \E d, e \in 1..NumDerive :
        /\ array # <<>>
        /\ isPromiseLike(array[1])
        /\ derived[d].state = "rejected"
        /\ derived[d].reason = THROWN
        /\ derived[d].values # <<>>
        /\ derived[e].state = "rejected"
        /\ derived[e].reason = THROWN
        /\ derived[e].values = <<>>

\* C16: once a promise of the array has rejected, a promise soonAll returned
\* that is still pending rejects, with the reason of an element that has
\* rejected, whether or not the other promises of the array ever settle; and
\* it never rejects with anything else.
C16_FailFast ==
    /\ [][\A c \in 1..NumAll :
             (allCalls[c].state = "pending" /\ allCalls'[c].state = "rejected")
             => /\ allCalls'[c].reason \in PromiseAllReasons(promises, array)
                /\ cache' = cache]_vars
    /\ \A c \in 1..NumAll :
           (allCalls[c].state = "pending" /\ SomeRejected)
           ~> (/\ allCalls[c].state = "rejected"
               /\ allCalls[c].reason \in PromiseAllReasons(promises, array))

\* the promise soonAll returned has rejected with the second element's
\* reason while the first element is still pending
C16_Witness ==
    \E c \in 1..NumAll :
        /\ Len(array) = 2
        /\ isPromiseLike(array[1]) /\ isPromiseLike(array[2])
        /\ promises[array[1].id].status = "pending"
        /\ allCalls[c].state = "rejected"
        /\ allCalls[c].reason = ReasonOf(array[2].id)

\* the callback of run r runs, its promise having rejected and its signal not
\* being aborted
RejectionFollowedUp(r) ==
    /\ runs[r].state = "suspended"
    /\ ~aborted[r]
    /\ promises[runs[r].on].status = "rejected"
    /\ runs'[r] # runs[r]

\* C17: when the promise a run is suspended on rejects and the run is not
\* aborted, the callback records Rejected in the cache and then restarts the
\* run from the start: the read function is invoked again, against the cache
\* that now holds the rejection, and the run comes to what that invocation
\* comes to.
C17_RejectionRestarts ==
    [][\A r \in 1..NumRuns :
          RejectionFollowedUp(r)
          => /\ cache'[runs[r].on] = promises[runs[r].on]
             /\ runs'[r].invocations = runs[r].invocations + 1
             /\ runs'[r] = resolveSuspension(cache', read, runs[r], FALSE)]_vars

\* C18: when the callback of a suspended run runs, the promise having
\* fulfilled or rejected, the cache holds the promise's outcome afterwards,
\* whether or not the run's signal is aborted.
C18_RecordedWhateverTheSignal ==
    [][\A r \in 1..NumRuns :
          (runs[r].state = "suspended" /\ runs'[r] # runs[r])
          => /\ cache'[runs[r].on].status # "pending"
             /\ cache'[runs[r].on] = promises[runs[r].on]]_vars

\* C19: the promises a run has suspended on differ from one another; and
\* whenever a run is restarted, every promise it has suspended on is
\* Fulfilled in the cache the new attempt reads, so that unwrapPromise
\* returns its payload.
C19_NoSuspensionTwice ==
    [][\A r \in 1..NumRuns :
          LET before == runs[r].suspensions
              after == runs'[r].suspensions
          IN  /\ \A i, j \in 1..Len(after) : i # j => after[i] # after[j]
              /\ (runs[r].state = "suspended"
                  /\ runs'[r].invocations = runs[r].invocations + 1)
                 => \A i \in 1..Len(before) :
                        /\ cache'[before[i]].status = "fulfilled"
                        /\ unwrapPromise(cache', PromiseOf(before[i]))
                               = [kind |-> "value", v |-> promises[before[i]].value,
                                  on |-> 0]]_vars

\* a run that read its dependencies one by one, suspended on two promises
\* and then returned
C19_Witness ==
    \E r \in 1..NumRuns :
        /\ read.mode = "get"
        /\ runs[r].invocations = 3
        /\ runs[r].state = "fulfilled"
        /\ Len(runs[r].suspensions) = 2
        /\ runs[r].suspensions[1] # runs[r].suspensions[2]

\* C20: an invocation of a read function that reads its dependencies with
\* eagerGet.all(atoms) first reads every atom through the store's getter, in
\* the order of atoms, and only then unwraps the values, in the same order;
\* when the unwrapping of an element throws the suspension signal every atom
\* has been read.
C20_BatchStartsAllFirst ==
    \A r \in 1..NumRuns :
        (read.mode = "all" /\ runs[r].invocations > 0)
        => LET t == runs[r].trace
               n == Len(read.deps)
           IN  /\ Len(t) >= n
               /\ Len(t) <= 2 * n
               /\ \A i \in 1..Len(t) :
                      t[i] = IF i <= n THEN Event("get", i) ELSE Event("unwrap", i - n)
               /\ runs[r].state = "suspended"
                  => /\ Len(t) > n
                     /\ read.deps[Len(t) - n] = PromiseOf(runs[r].on)

\* the run is suspended on the first of two promises, the second one read
C20_Witness ==
    \E r \in 1..NumRuns :
        /\ read.mode = "all"
        /\ Len(read.deps) = 2
        /\ isPromiseLike(read.deps[2])
        /\ read.deps[2] # read.deps[1]
        /\ runs[r].state = "suspended"
        /\ PromiseOf(runs[r].on) = read.deps[1]
        /\ runs[r].trace = <<Event("get", 1), Event("get", 2), Event("unwrap", 1)>>

\* C21: aborting the signal of a run changes nothing but that signal; and a
\* run whose own signal is not aborted, suspended on a promise another,
\* aborted, run has suspended on too, goes on when the promise settles as if
\* no run had been aborted: on fulfilment it records the payload and is
\* restarted, on rejection it records the reason and rejects with it.  No
\* step of a run or of a signal changes a promise.
C21_AbortIsLocal ==
    [][/\ (runs' # runs \/ aborted' # aborted) => promises' = promises
       /\ \A r, q \in 1..NumRuns :
            r # q =>
              /\ aborted'[q] # aborted[q]
                 => /\ runs' = runs
                    /\ cache' = cache
                    /\ aborted'[r] = aborted[r]
              /\ (/\ runs[r].state = "suspended" /\ ~aborted[r]
                  /\ aborted[q] /\ runs[r].on \in Range(runs[q].suspensions)
                  /\ runs'[r] # runs[r])
                 => /\ cache'[runs[r].on] = promises[runs[r].on]
                    /\ IF promises[runs[r].on].status = "fulfilled"
                       THEN runs'[r] = resolveSuspension(cache', read, runs[r], FALSE)
                       ELSE /\ runs'[r].state = "rejected"
                            /\ runs'[r].reason = promises[runs[r].on].reason]_vars

\* two runs suspended on the same promise: the aborted one ended inert, the
\* other one was restarted and fulfilled with the payload
C21_Witness ==
    \E r, q \in 1..NumRuns :
        /\ aborted[q] /\ ~aborted[r]
        /\ runs[q].state = "fulfilled" /\ runs[q].value = <<UNDEFINED>>
        /\ runs[r].state = "fulfilled" /\ runs[r].invocations = 2
        /\ runs[r].suspensions = runs[q].suspensions
        /\ runs[r].value = <<PayloadOf(runs[r].suspensions[1])>>

\* every promise the read function reads has settled
DepsSettled ==
    \A idx \in 1..Len(read.deps) :
        isPromiseLike(read.deps[idx]) => promises[read.deps[idx].id].status # "pending"

\* C22: the read function is invoked at most once more than it reads
\* distinct dependencies (indeed distinct promises), one invocation for the
\* start and one for each suspension, however late the promises settle; and
\* a run that is suspended when every promise the read function reads has
\* settled comes to a final outcome.
C22_RunEndsWithinBound ==
    /\ [](\A r \in 1..NumRuns :
            /\ runs[r].invocations <= Cardinality(Range(read.deps)) + 1
            /\ runs[r].invocations
                   <= Cardinality({x \in Range(read.deps) : isPromiseLike(x)}) + 1
            /\ runs[r].state # "idle" =>
                   runs[r].invocations
                       \in {Len(runs[r].suspensions), Len(runs[r].suspensions) + 1})
    /\ \A r \in 1..NumRuns :
           (runs[r].state = "suspended" /\ DepsSettled) ~> (runs[r].state \in Final)

\* a run over a batch of two promises that was not aborted and ended after
\* three invocations
C22_Witness ==
    \E r \in 1..NumRuns :
        /\ ~aborted[r]
        /\ Cardinality(Range(read.deps)) = 2
        /\ runs[r].invocations = 3
        /\ runs[r].state \in Final
        /\ read.mode = "awaitAll"

\* C23: in every state the cache holds, for a promise, either Pending or the
\* very outcome the promise has settled to (Fulfilled with its payload,
\* Rejected with its reason); and every step of soon, soonAll or a run that
\* changes the record of a promise writes that promise's own outcome, the
\* promise having settled.
C23_CacheAgreesWithPromises ==
    /\ [](\A p \in Promises : cache[p] \in {PendingMeta, promises[p]})
    /\ [][\A p \in Promises :
             cache'[p] # cache[p]
             => /\ promises[p].status # "pending"
                /\ cache'[p] = promises[p]
                /\ promises' = promises]_vars

\* one promise recorded as Fulfilled, the other as Rejected, by a run that
\* has ended and by a soon call
C23_Witness ==
    \E p, q \in Promises, r \in 1..NumRuns, c \in 1..NumSoon :
        /\ cache[p].status = "fulfilled"
        /\ cache[q].status = "rejected"
        /\ runs[r].state = "rejected"
        /\ runs[r].suspensions = <<p, q>>
        /\ soonCalls[c].state = "rejected"
        /\ soonCalls[c].meta.status = "pending"

\* C24: the step in which a promise soonAll returned rejects leaves the cache
\* as it is; and in a program that only calls soonAll, on one array, once a
\* call has rejected the cache holds no record at all, neither for the
\* element that rejected nor for those that fulfilled.
C24_RejectedAllWritesNothing ==
    /\ [][(\E c \in 1..NumAll :
              allCalls[c].state = "pending" /\ allCalls'[c].state = "rejected")
          => cache' = cache]_vars
    /\ []((\E c \in 1..NumAll : allCalls[c].state = "rejected")
          => \A p \in Promises : cache[p] = PendingMeta)

\* the promise soonAll returned has rejected, one element having fulfilled
\* and the other rejected
C24_Witness ==
    \E c \in 1..NumAll, i, j \in 1..Len(array) :
        /\ allCalls[c].state = "rejected"
        /\ isPromiseLike(array[i]) /\ isPromiseLike(array[j])
        /\ promises[array[i].id].status = "fulfilled"
        /\ promises[array[j].id].status = "rejected"
        /\ cache[array[i].id] = PendingMeta
        /\ cache[array[j].id] = PendingMeta

=============================================================================
